---- MODULE Spec2Model ----
(***************************************************************************)
(* bqui: the Bubble Tea session of the BigQuery terminal explorer.         *)
(*                                                                         *)
(* The program is an Elm-style reducer: Model.Update takes the session     *)
(* record and one message (a key press or the result of a command) and     *)
(* returns the new session record and the commands to run.  The model      *)
(* keeps that shape: every Go method is an operator from the record it     *)
(* receives to the record it returns, and the actions of the state         *)
(* machine apply Update to one key press or to the result of one command   *)
(* that is in flight.                                                      *)
(*                                                                         *)
(* Strings are sequences of one-character strings, Go slices are           *)
(* sequences (index i of the slice is element i+1 of the sequence), a nil  *)
(* pointer is Nil.                                                         *)
(***************************************************************************)
EXTENDS Integers, Sequences, FiniteSets, Bags, TLC

VARIABLES
    m,          \* the tui.Model record threaded through Update
    inflight,   \* bag of commands started and not yet answered
    quit,       \* "running", or "quit" after tea.Quit, or "panic"
    client,     \* the bigquery.Client the session and its commands share
    backend     \* the catalog the BigQuery collaborator answers from

vars == <<m, inflight, quit, client, backend>>

----------------------------------------------------------------------------
(* Bounds of the model.                                                    *)

\* longest text the user types into a filter or search input
MaxFilterLen == 1

\* most commands in flight at once; a key press that would start more is
\* not taken until a result has been delivered
MaxInFlight == 3

\* number of datasets of the long catalog (one more than a page holds)
LongLen == 21

\* furthest the keys that scroll without a limit (Down and PageDown on a tab
\* without rows, Right on a tab without columns) are followed
MaxScroll == 1

----------------------------------------------------------------------------
(* Strings.                                                                *)

Nil == [nil |-> TRUE]

\* the characters the user types into filters
FilterChars == {"a", "b"}

ToLowerChar(c) ==
    IF c = "A" THEN "a" ELSE IF c = "B" THEN "b" ELSE c

\* strings.ToLower
ToLower(s) == [i \in 1..Len(s) |-> ToLowerChar(s[i])]

\* strings.Contains
Contains(s, sub) ==
    \E i \in 0..(Len(s) - Len(sub)) : SubSeq(s, i + 1, i + Len(sub)) = sub

min(a, b) == IF a < b THEN a ELSE b

max(a, b) == IF a > b THEN a ELSE b

----------------------------------------------------------------------------
(* Key bindings (DefaultKeyMap) and key.Matches.                           *)

KeyMap == [
    Up          |-> {"up", "k"},
    Down        |-> {"down", "j"},
    Left        |-> {"left", "h"},
    Right       |-> {"right", "l"},
    Enter       |-> {"enter"},
    Tab         |-> {"tab"},
    ShiftTab    |-> {"shift+tab"},
    Search      |-> {"/"},
    Copy        |-> {"y"},
    CopyAlt     |-> {"ctrl+y"},
    Top         |-> {"home"},
    Bottom      |-> {"end"},
    VimTop      |-> {"g"},
    VimBottom   |-> {"G"},
    PageUp      |-> {"pgup"},
    PageDown    |-> {"pgdown"},
    ProjectList |-> {"ctrl+p"},
    Escape      |-> {"esc"},
    Back        |-> {"backspace"},
    Quit        |-> {"q", "ctrl+c"},
    Help        |-> {"?"} ]

Matches(k, binding) == k \in binding

\* len(msg.String()) == 1
IsRune(k) == k \in {"a", "b", "k", "j", "h", "l", "/", "y", "g", "G", "q", "?", "V", "0", "$"}

----------------------------------------------------------------------------
(* Messages and commands.                                                  *)

Msg(type, key, d, t, data) ==
    [type |-> type, key |-> key, DatasetID |-> d, TableID |-> t, data |-> data]

KeyMsg(k) == Msg("KeyMsg", k, <<>>, <<>>, <<>>)

Cmd(c, d, t, data) == [cmd |-> c, DatasetID |-> d, TableID |-> t, data |-> data]

\* bag of the commands of a tea.Batch
RECURSIVE BatchBag(_)
BatchBag(cmds) ==
    IF cmds = <<>> THEN EmptyBag
    ELSE SetToBag({Head(cmds)}) (+) BatchBag(Tail(cmds))

----------------------------------------------------------------------------
(* The catalog: what the BigQuery collaborator returns.                    *)

Dataset(id) == [ID |-> id]

Table(d, t) == [ID |-> t, DatasetID |-> d]

\* two datasets; "a" holds tables "a" and "b", "b" holds none
SmallCatalog == [
    project  |-> <<"p">>,
    projects |-> << [ID |-> <<"p">>, Name |-> <<"p">>], [ID |-> <<"q">>, Name |-> <<"q">>] >>,
    datasets |-> << <<"a">>, <<"b">> >>,
    tables   |-> [d \in { <<"a">>, <<"b">> } |->
                    IF d = <<"a">> THEN << <<"a">>, <<"b">> >> ELSE << >>] ]

\* two datasets; "a" holds tables "a" and "b", "b" holds table "b"
MixedCatalog == [
    project  |-> <<"p">>,
    projects |-> << [ID |-> <<"p">>, Name |-> <<"p">>] >>,
    datasets |-> << <<"a">>, <<"b">> >>,
    tables   |-> [d \in { <<"a">>, <<"b">> } |->
                    IF d = <<"a">> THEN << <<"a">>, <<"b">> >> ELSE << <<"b">> >>] ]

\* the 5-letter name of the number n, "a" for the bit 0 and "b" for 1,
\* so that names sort as numbers do
BitName(n) ==
    [i \in 1..5 |-> IF (n \div (2 ^ (5 - i))) % 2 = 1 THEN "b" ELSE "a"]

\* LongLen datasets; the last one holds table "a", the others hold none
LongCatalog == [
    project  |-> <<"p">>,
    projects |-> << [ID |-> <<"p">>, Name |-> <<"p">>] >>,
    datasets |-> [i \in 1..LongLen |-> BitName(i - 1)],
    tables   |-> [d \in {BitName(i - 1) : i \in 1..LongLen} |->
                    IF d = BitName(LongLen - 1) THEN << <<"a">> >> ELSE <<>>] ]

\* Client.ListDatasets
ListDatasets(b) == [i \in 1..Len(b.datasets) |-> Dataset(b.datasets[i])]

\* Client.ListTables
ListTables(b, d) ==
    IF d \in DOMAIN b.tables
    THEN [i \in 1..Len(b.tables[d]) |-> Table(d, b.tables[d][i])]
    ELSE <<>>

\* Client.GetTableSchema: two columns, named after the dataset and the table
GetTableSchema(d, t) ==
    [Fields |-> << [Name |-> d, Type |-> <<"s">>, Description |-> <<>>,
                    Required |-> TRUE, Repeated |-> FALSE],
                   [Name |-> t, Type |-> <<"i">>, Description |-> <<>>,
                    Required |-> FALSE, Repeated |-> FALSE] >>]

\* Client.PreviewTable: two columns, two rows
PreviewTable(d, t) ==
    [Headers |-> << <<"x">>, <<"y">> >>,
     Rows    |-> << <<d, t>>, <<t, d>> >>]

----------------------------------------------------------------------------
(* dataset_list.go: the Browser.                                           *)

NewDatasetListModel == [
    datasets        |-> <<>>,
    tables          |-> <<>>,
    selectedDataset |-> Nil,
    selectedTable   |-> Nil,
    cursor          |-> 0,
    filter          |-> <<>>,
    showingTables   |-> FALSE,
    viewOffset      |-> 0,
    tableSelected   |-> FALSE ]

\* rows of the Browser that fit on a page
maxVisible == 20

\* rows a PageUp or PageDown moves the cursor by
pageStep == 10

getFilteredDatasets(dl) ==
    IF dl.filter = <<>> THEN dl.datasets
    ELSE SelectSeq(dl.datasets,
                   LAMBDA d : Contains(ToLower(d.ID), ToLower(dl.filter)))

getFilteredTables(dl) ==
    IF dl.filter = <<>> THEN dl.tables
    ELSE SelectSeq(dl.tables,
                   LAMBDA t : Contains(ToLower(t.ID), ToLower(dl.filter)))

getFilteredItems(dl) ==
    IF ~dl.showingTables
    THEN [i \in 1..Len(getFilteredDatasets(dl)) |-> getFilteredDatasets(dl)[i].ID]
    ELSE [i \in 1..Len(getFilteredTables(dl)) |-> getFilteredTables(dl)[i].ID]

updateSelection(dl) ==
    IF ~dl.showingTables
    THEN IF dl.cursor < Len(getFilteredDatasets(dl))
         THEN [dl EXCEPT !.selectedDataset = getFilteredDatasets(dl)[dl.cursor + 1]]
         ELSE dl
    ELSE IF dl.cursor < Len(getFilteredTables(dl))
         THEN [dl EXCEPT !.selectedTable = getFilteredTables(dl)[dl.cursor + 1]]
         ELSE dl

ensureCursorVisible(dl, totalItems) ==
    LET o1 == IF dl.cursor < dl.viewOffset THEN dl.cursor ELSE dl.viewOffset
        o2 == IF dl.cursor >= o1 + maxVisible THEN dl.cursor - maxVisible + 1 ELSE o1
        o3 == IF o2 < 0 THEN 0 ELSE o2
        o4 == IF totalItems > maxVisible /\ o3 > totalItems - maxVisible
              THEN totalItems - maxVisible ELSE o3
    IN [dl EXCEPT !.viewOffset = o4]

\* DatasetListModel.handleKeypress
DatasetList_handleKeypress(dl, k) ==
    LET n == Len(getFilteredItems(dl))
        finish(d) == ensureCursorVisible(updateSelection(d), n)
    IN
    IF n = 0 THEN dl
    ELSE IF Matches(k, KeyMap.Up) THEN
        finish(IF dl.cursor > 0 THEN [dl EXCEPT !.cursor = @ - 1] ELSE dl)
    ELSE IF Matches(k, KeyMap.Down) THEN
        finish(IF dl.cursor < n - 1 THEN [dl EXCEPT !.cursor = @ + 1] ELSE dl)
    ELSE IF Matches(k, KeyMap.VimTop) \/ Matches(k, KeyMap.Top) THEN
        finish([dl EXCEPT !.cursor = 0, !.viewOffset = 0])
    ELSE IF Matches(k, KeyMap.VimBottom) \/ Matches(k, KeyMap.Bottom) THEN
        finish([dl EXCEPT !.cursor = n - 1,
                          !.viewOffset = IF n > maxVisible THEN n - maxVisible ELSE 0])
    ELSE IF Matches(k, KeyMap.PageUp) THEN
        finish([dl EXCEPT !.cursor = IF @ - pageStep < 0 THEN 0 ELSE @ - pageStep])
    ELSE IF Matches(k, KeyMap.PageDown) THEN
        finish([dl EXCEPT !.cursor = IF @ + pageStep >= n THEN n - 1 ELSE @ + pageStep])
    ELSE IF Matches(k, KeyMap.Enter) THEN
        IF ~dl.showingTables
        THEN IF dl.cursor < Len(getFilteredDatasets(dl))
             THEN [dl EXCEPT !.selectedDataset = getFilteredDatasets(dl)[dl.cursor + 1],
                             !.showingTables = TRUE,
                             !.cursor = 0,
                             !.selectedTable = Nil]
             ELSE finish(dl)
        ELSE IF dl.cursor < Len(getFilteredTables(dl))
             THEN [dl EXCEPT !.selectedTable = getFilteredTables(dl)[dl.cursor + 1],
                             !.tableSelected = TRUE]
             ELSE finish(dl)
    ELSE IF Matches(k, KeyMap.Left) THEN
        finish(IF dl.showingTables
               THEN [dl EXCEPT !.showingTables = FALSE, !.selectedTable = Nil, !.cursor = 0]
               ELSE dl)
    ELSE IF Matches(k, KeyMap.Right) THEN
        finish(IF ~dl.showingTables /\ dl.selectedDataset # Nil
               THEN [dl EXCEPT !.showingTables = TRUE, !.cursor = 0]
               ELSE dl)
    ELSE finish(dl)

\* DatasetListModel.Update
DatasetList_Update(dl, msg) ==
    IF msg.type = "KeyMsg" THEN DatasetList_handleKeypress(dl, msg.key) ELSE dl

----------------------------------------------------------------------------
(* table_detail.go: the detail pane.                                       *)

SchemaTab == 0

PreviewTab == 1

QueryTab == 2

ResultsTab == 3

\* The query editor is a bubbles textarea; only its input focus is kept.
NewTableDetailModel == [
    schema            |-> Nil,
    preview           |-> Nil,
    queryResult       |-> Nil,
    activeTab         |-> SchemaTab,
    queryInput        |-> [focused |-> TRUE],
    scrollOffset      |-> 0,
    horizontalOffset  |-> 0,
    currentTableName  |-> <<>>,
    currentProjectID  |-> <<>>,
    currentDatasetID  |-> <<>>,
    schemaFilter      |-> <<>>,
    showSchemaFilter  |-> FALSE,
    previewRowCursor  |-> 0,
    previewColCursor  |-> 0,
    schemaRowCursor   |-> 0,
    height            |-> 20,
    width             |-> 0,
    visualMode        |-> FALSE,
    visualStartRow    |-> 0,
    visualEndRow      |-> 0,
    previewFilter     |-> <<>>,
    showPreviewFilter |-> FALSE,
    showColumnDialog  |-> FALSE,
    selectedColumn    |-> Nil,
    dialogCursor      |-> 0,
    queryResults      |-> Nil,
    executedQuery     |-> <<>>,
    resultsRowCursor  |-> 0,
    resultsColCursor  |-> 0 ]

\* rows of the Schema and Preview tabs kept around the cursor
detailMaxVisible == 15

\* rows of a query result the Query tab scrolls over
queryMaxVisible == 10

minColWidth == 8

maxColWidth == 30

\* TableDetailModel.fieldMatchesFilter (the catalog's columns have no
\* nested columns)
fieldMatchesFilter(field, filter) ==
    \/ Contains(ToLower(field.Name), filter)
    \/ Contains(ToLower(field.Description), filter)
    \/ Contains(ToLower(field.Type), filter)

getFilteredSchemaFields(td) ==
    IF td.schema = Nil THEN <<>>
    ELSE IF td.schemaFilter = <<>> THEN td.schema.Fields
    ELSE SelectSeq(td.schema.Fields,
                   LAMBDA f : fieldMatchesFilter(f, ToLower(td.schemaFilter)))

getFilteredPreviewRows(td) ==
    IF td.preview = Nil THEN <<>>
    ELSE IF td.previewFilter = <<>> THEN td.preview.Rows
    ELSE SelectSeq(td.preview.Rows,
                   LAMBDA row : \E i \in 1..Len(row) :
                       Contains(ToLower(row[i]), ToLower(td.previewFilter)))

\* TableDetailModel.calculateColumnWidths
calculateColumnWidths(td) ==
    LET rows == getFilteredPreviewRows(td)
        raw(i) == LET lens == {Len(td.preview.Headers[i])} \cup
                              {Len(rows[r][i]) : r \in {x \in 1..Len(rows) : i <= Len(rows[x])}}
                  IN CHOOSE w \in lens : \A v \in lens : v <= w
    IN [i \in 1..Len(td.preview.Headers) |->
            IF raw(i) < minColWidth THEN minColWidth
            ELSE IF raw(i) > maxColWidth THEN maxColWidth ELSE raw(i)]

\* start of column c (0-based) in the rendered row: widths plus one space each
RECURSIVE colStart(_, _)
colStart(widths, c) ==
    IF c = 0 THEN 0 ELSE colStart(widths, c - 1) + widths[c] + 1

ensurePreviewCursorVisible(td) ==
    LET o1 == IF td.previewRowCursor < td.scrollOffset
              THEN td.previewRowCursor ELSE td.scrollOffset
        o2 == IF td.previewRowCursor >= o1 + detailMaxVisible
              THEN td.previewRowCursor - detailMaxVisible + 1 ELSE o1
        o3 == IF o2 < 0 THEN 0 ELSE o2
        n  == Len(td.preview.Rows)
        o4 == IF n > detailMaxVisible /\ o3 > n - detailMaxVisible
              THEN n - detailMaxVisible ELSE o3
    IN [td EXCEPT !.scrollOffset = o4]

ensurePreviewColumnVisible(td) ==
    IF Len(td.preview.Headers) = 0 THEN td
    ELSE
    LET colWidths        == calculateColumnWidths(td)
        selectedColStart == colStart(colWidths, td.previewColCursor)
        selectedColEnd   == selectedColStart + colWidths[td.previewColCursor + 1]
        maxDisplayWidth  == td.width - 2
        visibleStart     == td.horizontalOffset
        visibleEnd       == td.horizontalOffset + maxDisplayWidth
    IN IF selectedColStart >= visibleStart /\ selectedColEnd <= visibleEnd THEN td
       ELSE IF td.previewColCursor = 0 THEN [td EXCEPT !.horizontalOffset = 0]
       ELSE IF selectedColStart < visibleStart
            THEN [td EXCEPT !.horizontalOffset = selectedColStart]
       ELSE IF selectedColEnd > visibleEnd
            THEN [td EXCEPT !.horizontalOffset = @ + (selectedColEnd - visibleEnd)]
       ELSE td

ensureSchemaCursorVisible(td) ==
    LET o1 == IF td.schemaRowCursor < td.scrollOffset
              THEN td.schemaRowCursor ELSE td.scrollOffset
        o2 == IF td.schemaRowCursor >= o1 + detailMaxVisible
              THEN td.schemaRowCursor - detailMaxVisible + 1 ELSE o1
        o3 == IF o2 < 0 THEN 0 ELSE o2
        n  == Len(getFilteredSchemaFields(td))
        o4 == IF n > detailMaxVisible /\ o3 > n - detailMaxVisible
              THEN n - detailMaxVisible ELSE o3
    IN [td EXCEPT !.scrollOffset = o4]

forceScrollToColumn(td, colIndex) ==
    IF td.preview = Nil \/ colIndex < 0 \/ colIndex >= Len(td.preview.Headers) THEN td
    ELSE
    LET colWidths       == calculateColumnWidths(td)
        targetColStart  == colStart(colWidths, colIndex)
        targetColEnd    == targetColStart + colWidths[colIndex + 1]
        maxDisplayWidth == td.width - 2
    IN IF colIndex = 0 THEN [td EXCEPT !.horizontalOffset = 0]
       ELSE IF colIndex = Len(td.preview.Headers) - 1
            THEN [td EXCEPT !.horizontalOffset = max(0, targetColEnd - maxDisplayWidth)]
       ELSE IF targetColStart < td.horizontalOffset
            THEN [td EXCEPT !.horizontalOffset = targetColStart]
       ELSE IF targetColEnd > td.horizontalOffset + maxDisplayWidth
            THEN [td EXCEPT !.horizontalOffset = max(0, targetColEnd - maxDisplayWidth)]
       ELSE td

getDialogOptionCount(td) ==
    IF td.selectedColumn = Nil THEN 0
    ELSE 3 + (IF ~td.selectedColumn.Required THEN 1 ELSE 0)
           + (IF td.selectedColumn.Repeated THEN 1 ELSE 0)

\* TableDetailModel.generateQueryForOption: the SQL text is kept as the
\* option, the column and the table it is built from; <<>> is the empty text
generateQueryForOption(td, optionIndex) ==
    IF td.selectedColumn = Nil THEN <<>>
    ELSE IF optionIndex >= 0 /\ optionIndex < getDialogOptionCount(td)
         THEN <<optionIndex, td.selectedColumn.Name, td.currentTableName>>
         ELSE <<>>

\* the result of a TableDetailModel method: the record and its commands
TD(td, cmds) == [td |-> td, cmds |-> cmds, panic |-> FALSE]

\* a method that indexes a slice out of range does not return
TDPanic(td) == [td |-> td, cmds |-> <<>>, panic |-> TRUE]

executeDialogOption(td) ==
    IF td.selectedColumn = Nil THEN TD(td, <<>>)
    ELSE LET query == generateQueryForOption(td, td.dialogCursor)
         IN IF query = <<>> THEN TD(td, <<>>)
            ELSE TD([td EXCEPT !.queryResults = Nil,
                               !.resultsRowCursor = 0,
                               !.resultsColCursor = 0,
                               !.visualMode = FALSE,
                               !.executedQuery = query,
                               !.showColumnDialog = FALSE,
                               !.activeTab = ResultsTab],
                    << Cmd("ExecuteQueryMsg", <<>>, <<>>, query) >>)

handleEscapeKey(td) ==
    IF td.showColumnDialog
    THEN [td EXCEPT !.showColumnDialog = FALSE, !.selectedColumn = Nil, !.dialogCursor = 0]
    ELSE IF td.visualMode
    THEN [td EXCEPT !.visualMode = FALSE, !.visualStartRow = 0, !.visualEndRow = 0]
    ELSE IF td.activeTab = SchemaTab /\ td.schemaFilter # <<>>
    THEN [td EXCEPT !.schemaFilter = <<>>, !.schemaRowCursor = 0]
    ELSE IF td.activeTab = PreviewTab /\ td.previewFilter # <<>>
    THEN [td EXCEPT !.previewFilter = <<>>, !.previewRowCursor = 0]
    ELSE td

\* the tail of TableDetailModel.handleKeypress: "Ensure cursors are visible"
ensureVisible(td) ==
    IF td.activeTab = PreviewTab /\ td.preview # Nil
    THEN ensurePreviewColumnVisible(ensurePreviewCursorVisible(td))
    ELSE IF td.activeTab = SchemaTab /\ td.schema # Nil
    THEN ensureSchemaCursorVisible(td)
    ELSE td

\* the "V" key of TableDetailModel.handleKeypress
toggleVisual(td) ==
    IF (td.activeTab = PreviewTab /\ td.preview # Nil)
       \/ (td.activeTab = ResultsTab /\ td.queryResults # Nil)
    THEN IF ~td.visualMode
         THEN LET row == IF td.activeTab = PreviewTab
                         THEN td.previewRowCursor ELSE td.resultsRowCursor
              IN [td EXCEPT !.visualMode = TRUE,
                            !.visualStartRow = row, !.visualEndRow = row]
         ELSE [td EXCEPT !.visualMode = FALSE,
                         !.visualStartRow = 0, !.visualEndRow = 0]
    ELSE td

\* a tab change that leaves the column cursor of the preview where it is
cycleTab_keep(td, step) ==
    [td EXCEPT !.activeTab = (td.activeTab + step) % 4,
               !.scrollOffset = 0,
               !.previewRowCursor = 0,
               !.schemaRowCursor = 0,
               !.visualMode = FALSE]

\* the Tab and ShiftTab cases of TableDetailModel.handleKeypress
cycleTab(td, step) ==
    [td EXCEPT !.activeTab = (td.activeTab + step) % 4,
               !.scrollOffset = 0,
               !.previewRowCursor = 0,
               !.previewColCursor = 0,
               !.schemaRowCursor = 0,
               !.visualMode = FALSE]

keyUp(td) ==
    IF td.showColumnDialog
    THEN IF td.dialogCursor > 0 THEN [td EXCEPT !.dialogCursor = @ - 1] ELSE td
    ELSE IF td.activeTab = PreviewTab /\ td.preview # Nil
    THEN IF td.previewRowCursor > 0
         THEN [td EXCEPT !.previewRowCursor = @ - 1,
                         !.visualEndRow = IF td.visualMode
                                          THEN td.previewRowCursor - 1 ELSE @]
         ELSE td
    ELSE IF td.activeTab = SchemaTab /\ td.schema # Nil
    THEN IF td.schemaRowCursor > 0 THEN [td EXCEPT !.schemaRowCursor = @ - 1] ELSE td
    ELSE IF td.activeTab = ResultsTab /\ td.queryResults # Nil
    THEN IF td.resultsRowCursor > 0
         THEN [td EXCEPT !.resultsRowCursor = @ - 1,
                         !.visualEndRow = IF td.visualMode
                                          THEN td.resultsRowCursor - 1 ELSE @]
         ELSE td
    ELSE IF td.scrollOffset > 0 THEN [td EXCEPT !.scrollOffset = @ - 1] ELSE td

keyDown(td) ==
    IF td.showColumnDialog
    THEN IF td.dialogCursor < getDialogOptionCount(td) - 1
         THEN [td EXCEPT !.dialogCursor = @ + 1] ELSE td
    ELSE IF td.activeTab = PreviewTab /\ td.preview # Nil
    THEN IF td.previewRowCursor < Len(getFilteredPreviewRows(td)) - 1
         THEN [td EXCEPT !.previewRowCursor = @ + 1,
                         !.visualEndRow = IF td.visualMode
                                          THEN td.previewRowCursor + 1 ELSE @]
         ELSE td
    ELSE IF td.activeTab = SchemaTab /\ td.schema # Nil
    THEN IF td.schemaRowCursor < Len(getFilteredSchemaFields(td)) - 1
         THEN [td EXCEPT !.schemaRowCursor = @ + 1] ELSE td
    ELSE IF td.activeTab = ResultsTab /\ td.queryResults # Nil
    THEN IF td.resultsRowCursor < Len(td.queryResults.Rows) - 1
         THEN [td EXCEPT !.resultsRowCursor = @ + 1,
                         !.visualEndRow = IF td.visualMode
                                          THEN td.resultsRowCursor + 1 ELSE @]
         ELSE td
    ELSE [td EXCEPT !.scrollOffset = @ + 1]

keyTop(td) ==
    IF td.activeTab = PreviewTab /\ td.preview # Nil
    THEN IF td.visualMode
         THEN [td EXCEPT !.previewRowCursor = 0, !.visualEndRow = 0]
         ELSE [td EXCEPT !.previewRowCursor = 0, !.previewColCursor = 0]
    ELSE IF td.activeTab = ResultsTab /\ td.queryResults # Nil
    THEN IF td.visualMode
         THEN [td EXCEPT !.resultsRowCursor = 0, !.visualEndRow = 0]
         ELSE [td EXCEPT !.resultsRowCursor = 0, !.resultsColCursor = 0]
    ELSE IF td.activeTab = SchemaTab /\ td.schema # Nil
    THEN [td EXCEPT !.schemaRowCursor = 0]
    ELSE [td EXCEPT !.scrollOffset = 0]

keyBottom(td) ==
    IF td.activeTab = SchemaTab /\ td.schema # Nil
    THEN LET n == Len(getFilteredSchemaFields(td))
         IN IF n > 0 THEN [td EXCEPT !.schemaRowCursor = n - 1] ELSE td
    ELSE IF td.activeTab = PreviewTab /\ td.preview # Nil
    THEN LET n == Len(getFilteredPreviewRows(td))
         IN IF n > 0
            THEN IF td.visualMode
                 THEN [td EXCEPT !.previewRowCursor = n - 1, !.visualEndRow = n - 1]
                 ELSE [td EXCEPT !.previewRowCursor = n - 1,
                                 !.previewColCursor =
                                     IF Len(td.preview.Headers) > 0
                                     THEN Len(td.preview.Headers) - 1 ELSE 0]
            ELSE [td EXCEPT !.previewRowCursor = 0]
    ELSE IF td.activeTab = QueryTab /\ td.queryResult # Nil
    THEN [td EXCEPT !.scrollOffset =
              IF Len(td.queryResult.Rows) > queryMaxVisible
              THEN Len(td.queryResult.Rows) - queryMaxVisible ELSE 0]
    ELSE IF td.activeTab = ResultsTab /\ td.queryResults # Nil
    THEN LET n == Len(td.queryResults.Rows)
         IN IF n > 0
            THEN IF td.visualMode
                 THEN [td EXCEPT !.resultsRowCursor = n - 1, !.visualEndRow = n - 1]
                 ELSE [td EXCEPT !.resultsRowCursor = n - 1,
                                 !.resultsColCursor =
                                     IF Len(td.queryResults.Columns) > 0
                                     THEN Len(td.queryResults.Columns) - 1 ELSE 0]
            ELSE [td EXCEPT !.resultsRowCursor = 0]
    ELSE td

\* rows a PageUp or PageDown moves a detail cursor by
detailPageStep == 10

keyPageUp(td) ==
    IF td.activeTab = PreviewTab /\ td.preview # Nil
    THEN [td EXCEPT !.previewRowCursor = max(0, @ - detailPageStep)]
    ELSE IF td.activeTab = SchemaTab /\ td.schema # Nil
    THEN [td EXCEPT !.schemaRowCursor = max(0, @ - detailPageStep)]
    ELSE [td EXCEPT !.scrollOffset = max(0, @ - detailPageStep)]

keyPageDown(td) ==
    IF td.activeTab = PreviewTab /\ td.preview # Nil
    THEN [td EXCEPT !.previewRowCursor =
              IF @ + detailPageStep >= Len(td.preview.Rows)
              THEN Len(td.preview.Rows) - 1 ELSE @ + detailPageStep]
    ELSE IF td.activeTab = SchemaTab /\ td.schema # Nil
    THEN [td EXCEPT !.schemaRowCursor =
              IF @ + detailPageStep >= Len(getFilteredSchemaFields(td))
              THEN Len(getFilteredSchemaFields(td)) - 1 ELSE @ + detailPageStep]
    ELSE [td EXCEPT !.scrollOffset = @ + detailPageStep]

keyLeft(td) ==
    IF td.activeTab = PreviewTab /\ td.preview # Nil
    THEN IF td.previewColCursor > 0 THEN [td EXCEPT !.previewColCursor = @ - 1] ELSE td
    ELSE IF td.activeTab = ResultsTab /\ td.queryResults # Nil
    THEN IF td.resultsColCursor > 0 THEN [td EXCEPT !.resultsColCursor = @ - 1] ELSE td
    ELSE IF td.horizontalOffset > 0 THEN [td EXCEPT !.horizontalOffset = @ - 1] ELSE td

keyRight(td) ==
    IF td.activeTab = PreviewTab /\ td.preview # Nil
    THEN IF td.previewColCursor < Len(td.preview.Headers) - 1
         THEN [td EXCEPT !.previewColCursor = @ + 1] ELSE td
    ELSE IF td.activeTab = ResultsTab /\ td.queryResults # Nil
    THEN IF td.resultsColCursor < Len(td.queryResults.Columns) - 1
         THEN [td EXCEPT !.resultsColCursor = @ + 1] ELSE td
    ELSE [td EXCEPT !.horizontalOffset = @ + 1]

\* the offset the "$" key gives the Schema tab
schemaEndOffset == 1000

\* the cases of the switch in TableDetailModel.handleKeypress that move a
\* cursor or change the tab and then fall through to its tail; a key bound
\* to none of them, or an Enter that opens nothing, leaves the pane as it is
navigate(td, k) ==
    IF Matches(k, KeyMap.Tab) THEN cycleTab(td, 1)
    ELSE IF Matches(k, KeyMap.ShiftTab) THEN cycleTab(td, 3)
    ELSE IF Matches(k, KeyMap.Up) THEN keyUp(td)
    ELSE IF Matches(k, KeyMap.Down) THEN keyDown(td)
    ELSE IF Matches(k, KeyMap.VimTop) \/ Matches(k, KeyMap.Top) THEN keyTop(td)
    ELSE IF Matches(k, KeyMap.VimBottom) \/ Matches(k, KeyMap.Bottom) THEN keyBottom(td)
    ELSE IF Matches(k, KeyMap.PageUp) THEN keyPageUp(td)
    ELSE IF Matches(k, KeyMap.PageDown) THEN keyPageDown(td)
    ELSE IF Matches(k, KeyMap.Left) THEN keyLeft(td)
    ELSE IF Matches(k, KeyMap.Right) THEN keyRight(td)
    ELSE td

\* TableDetailModel.handleKeypress: the cases that return at once, then the
\* tail that brings the cursors into view
TableDetail_handleKeypress(td, k) ==
    IF Matches(k, KeyMap.Escape) THEN TD(handleEscapeKey(td), <<>>)
    ELSE IF k = "V" \/ k = "shift+v" THEN TD(toggleVisual(td), <<>>)
    ELSE IF k = "/" /\ td.activeTab = SchemaTab
    THEN TD([td EXCEPT !.showSchemaFilter = TRUE], <<>>)
    ELSE IF k = "/" /\ td.activeTab = PreviewTab
    THEN TD([td EXCEPT !.showPreviewFilter = TRUE], <<>>)
    ELSE IF k = "0"
    THEN IF td.activeTab = PreviewTab
         THEN TD(forceScrollToColumn([td EXCEPT !.previewColCursor = 0], 0), <<>>)
         ELSE IF td.activeTab = SchemaTab
         THEN TD([td EXCEPT !.horizontalOffset = 0], <<>>)
         ELSE TD(td, <<>>)
    ELSE IF k = "$"
    THEN IF td.activeTab = PreviewTab /\ td.preview # Nil
         THEN IF Len(td.preview.Headers) > 0
              THEN TD(forceScrollToColumn(
                          [td EXCEPT !.previewColCursor = Len(td.preview.Headers) - 1],
                          Len(td.preview.Headers) - 1), <<>>)
              ELSE TD(td, <<>>)
         ELSE IF td.activeTab = SchemaTab
         THEN TD([td EXCEPT !.horizontalOffset = schemaEndOffset], <<>>)
         ELSE TD(td, <<>>)
    ELSE IF Matches(k, KeyMap.Enter) /\ td.showColumnDialog THEN executeDialogOption(td)
    ELSE IF Matches(k, KeyMap.Enter) /\ td.activeTab = SchemaTab /\ td.schema # Nil
            /\ ~td.showSchemaFilter /\ td.schemaRowCursor < 0
    THEN TDPanic(td)
    ELSE IF Matches(k, KeyMap.Enter) /\ td.activeTab = SchemaTab /\ td.schema # Nil
            /\ ~td.showSchemaFilter
            /\ td.schemaRowCursor < Len(getFilteredSchemaFields(td))
    THEN TD([td EXCEPT !.selectedColumn =
                           getFilteredSchemaFields(td)[td.schemaRowCursor + 1],
                       !.showColumnDialog = TRUE,
                       !.dialogCursor = 0], <<>>)
    ELSE IF Matches(k, KeyMap.Enter) /\ td.activeTab = QueryTab /\ ~td.queryInput.focused
    THEN TD([td EXCEPT !.queryInput.focused = TRUE], <<>>)
    ELSE TD(ensureVisible(navigate(td, k)), <<>>)

\* the filter input of TableDetailModel.Update: f is the filter field,
\* show its flag and cur the row cursor it resets
filterInput(td, k, f, show, cur) ==
    IF k = "enter" THEN [td EXCEPT ![show] = FALSE, ![cur] = 0]
    ELSE IF k = "esc" THEN [td EXCEPT ![show] = FALSE, ![f] = <<>>, ![cur] = 0]
    ELSE IF k = "backspace"
    THEN [td EXCEPT ![f] = IF Len(@) > 0 THEN SubSeq(@, 1, Len(@) - 1) ELSE @,
                    ![cur] = 0]
    ELSE IF IsRune(k) THEN [td EXCEPT ![f] = Append(@, k), ![cur] = 0]
    ELSE td

\* TableDetailModel.Update
TableDetail_Update(td, msg) ==
    IF msg.type = "KeyMsg" THEN
        IF td.showSchemaFilter
        THEN TD(filterInput(td, msg.key, "schemaFilter", "showSchemaFilter",
                            "schemaRowCursor"), <<>>)
        ELSE IF td.showPreviewFilter
        THEN TD(filterInput(td, msg.key, "previewFilter", "showPreviewFilter",
                            "previewRowCursor"), <<>>)
        ELSE IF td.activeTab = QueryTab /\ td.queryInput.focused
        THEN IF Matches(msg.key, KeyMap.Escape)
             THEN TD([td EXCEPT !.queryInput.focused = FALSE], <<>>)
             ELSE IF Matches(msg.key, KeyMap.Tab)
             THEN TD([td EXCEPT !.activeTab = (td.activeTab + 1) % 3,
                                !.scrollOffset = 0,
                                !.queryInput.focused = FALSE], <<>>)
             ELSE IF Matches(msg.key, KeyMap.ShiftTab)
             THEN TD([td EXCEPT !.activeTab = (td.activeTab + 2) % 3,
                                !.scrollOffset = 0,
                                !.queryInput.focused = FALSE], <<>>)
             ELSE TD(td, <<>>)
        ELSE TableDetail_handleKeypress(td, msg.key)
    ELSE IF msg.type = "QueryResultMsg"
    THEN TD([td EXCEPT !.queryResult = msg.data], <<>>)
    ELSE TD(td, <<>>)

----------------------------------------------------------------------------
(* project_selector.go and search.go: the Picker and the search input.     *)

\* a Picker that is constructed with the projects of the account
NewProjectSelectorModel_loaded ==
    [projects |-> SmallCatalog.projects, cursor |-> 0, filter |-> <<>>]

NewProjectSelectorModel == [projects |-> <<>>, cursor |-> 0, filter |-> <<>>]

getFilteredProjects(ps) ==
    IF ps.filter = <<>> THEN ps.projects
    ELSE SelectSeq(ps.projects,
                   LAMBDA p : \/ Contains(ToLower(p.ID), ToLower(ps.filter))
                              \/ Contains(ToLower(p.Name), ToLower(ps.filter)))

\* the result of a ProjectSelectorModel method: the record and its commands
PS(ps, cmds) == [ps |-> ps, cmds |-> cmds]

\* ProjectSelectorModel.handleKeypress
ProjectSelector_handleKeypress(ps, k) ==
    LET n == Len(getFilteredProjects(ps))
    IN IF Matches(k, KeyMap.Up)
       THEN PS(IF ps.cursor > 0 THEN [ps EXCEPT !.cursor = @ - 1] ELSE ps, <<>>)
       ELSE IF Matches(k, KeyMap.Down)
       THEN PS(IF ps.cursor < n - 1 THEN [ps EXCEPT !.cursor = @ + 1] ELSE ps, <<>>)
       ELSE IF Matches(k, KeyMap.Enter)
       THEN IF n > 0 /\ ps.cursor < n
            \* the message carries the project; its ID is all Model.Update reads
            THEN PS(ps, << Cmd("ProjectSelectedMsg", <<>>, <<>>,
                               getFilteredProjects(ps)[ps.cursor + 1].ID) >>)
            ELSE PS(ps, <<>>)
       ELSE PS(ps, <<>>)

\* ProjectSelectorModel.Update
ProjectSelector_Update(ps, msg) ==
    IF msg.type = "KeyMsg" THEN ProjectSelector_handleKeypress(ps, msg.key)
    ELSE IF msg.type = "ProjectsLoadedMsg" THEN PS([ps EXCEPT !.projects = msg.data], <<>>)
    ELSE PS(ps, <<>>)

NewSearchModel == [input |-> <<>>]

\* SearchModel.Update
Search_Update(sm, msg) ==
    IF msg.type # "KeyMsg" THEN sm
    ELSE IF msg.key = "backspace"
    THEN [sm EXCEPT !.input = IF Len(@) > 0 THEN SubSeq(@, 1, Len(@) - 1) ELSE @]
    ELSE IF msg.key = "ctrl+u" THEN [sm EXCEPT !.input = <<>>]
    ELSE IF IsRune(msg.key) THEN [sm EXCEPT !.input = Append(@, msg.key)]
    ELSE sm

----------------------------------------------------------------------------
(* app.go: the session.                                                    *)

FocusDatasetList == 0

FocusTableDetail == 1

FocusProjectSelector == 2

FocusSearch == 3

NewModel == [
    datasetList           |-> NewDatasetListModel,
    tableDetail           |-> NewTableDetailModel,
    projectSelector       |-> NewProjectSelectorModel,
    search                |-> NewSearchModel,
    focus                 |-> FocusDatasetList,
    showHelp              |-> FALSE,
    width                 |-> 0,
    height                |-> 0,
    ready                 |-> FALSE,
    err                   |-> <<>>,
    statusMessage         |-> <<>>,
    showProjectList       |-> FALSE,
    loadingDatasets       |-> FALSE,
    loadingTables         |-> FALSE,
    loadingSchema         |-> FALSE,
    loadingPreview        |-> FALSE,
    lastSelectedDatasetID |-> <<>>,
    lastSelectedTableID   |-> <<>> ]

\* the result of Update: the record, the commands of the returned tea.Cmd,
\* and "quit" when that command is tea.Quit, "panic" when Update panicked
R(mm, cmds) == [m |-> mm, cmds |-> cmds, quit |-> "running"]

Quit(mm) == [m |-> mm, cmds |-> <<>>, quit |-> "quit"]

Panic(mm) == [m |-> mm, cmds |-> <<>>, quit |-> "panic"]

\* Model.loadDatasets
loadDatasets(mm) == << Cmd("loadDatasets", <<>>, <<>>, <<>>) >>

\* a tables loader that asks for nothing
loadTables_none(mm) == <<>>

\* Model.loadTables: no command without a selected dataset
loadTables(mm) ==
    IF mm.datasetList.selectedDataset = Nil THEN <<>>
    ELSE << Cmd("loadTables", mm.datasetList.selectedDataset.ID, <<>>, <<>>) >>

\* Model.loadTableSchema: no command without a selected table
loadTableSchema(mm) ==
    IF mm.datasetList.selectedTable = Nil THEN <<>>
    ELSE << Cmd("loadTableSchema", mm.datasetList.selectedTable.DatasetID,
                mm.datasetList.selectedTable.ID, <<>>) >>

\* a preview loader that asks for nothing
loadTablePreview_none(mm) == <<>>

\* Model.loadTablePreview: no command without a selected table
loadTablePreview(mm) ==
    IF mm.datasetList.selectedTable = Nil THEN <<>>
    ELSE << Cmd("loadTablePreview", mm.datasetList.selectedTable.DatasetID,
                mm.datasetList.selectedTable.ID, <<>>) >>

\* Model.loadProjects
loadProjects(mm) == << Cmd("loadProjects", <<>>, <<>>, <<>>) >>

\* Model.switchProject
switchProject(mm, projectID) == << Cmd("switchProject", <<>>, <<>>, projectID) >>

\* the clipboard command of Model.handleCopy
copyCmd(text) == << Cmd("copy", <<>>, <<>>, text) >>

\* Model.handleSearchInput
handleSearchInput(mm, k) ==
    IF k = "enter"
    THEN R([mm EXCEPT !.focus = FocusDatasetList,
                      !.datasetList.filter = mm.search.input], <<>>)
    ELSE IF k = "esc"
    THEN R([mm EXCEPT !.focus = FocusDatasetList,
                      !.search = NewSearchModel,
                      !.datasetList.filter = <<>>], <<>>)
    ELSE R([mm EXCEPT !.search = Search_Update(mm.search, KeyMsg(k))], <<>>)

\* the FocusDatasetList case of Model.updateFocusedComponent
\* with dl the Browser as DatasetListModel.Update returned it
datasetListUpdated(mm, dl) ==
    LET m1 == [mm EXCEPT !.datasetList = dl]
    IN IF dl.tableSelected
       THEN LET m2 == [m1 EXCEPT !.datasetList.tableSelected = FALSE,
                                 !.focus = FocusTableDetail]
            IN R(m2, loadTableSchema(m2) \o loadTablePreview(m2))
       ELSE
       LET tableKey == IF dl.selectedDataset # Nil /\ dl.selectedTable # Nil
                       THEN dl.selectedDataset.ID \o <<".">> \o dl.selectedTable.ID
                       ELSE <<>>
       IN IF dl.selectedDataset # Nil /\ dl.selectedTable # Nil
             /\ m1.lastSelectedTableID # tableKey
          THEN LET m2 == [m1 EXCEPT !.lastSelectedTableID = tableKey,
                                    !.loadingSchema = TRUE,
                                    !.loadingPreview = TRUE]
               IN R(m2, loadTableSchema(m2) \o loadTablePreview(m2))
          ELSE IF dl.selectedDataset # Nil
                  /\ m1.lastSelectedDatasetID # dl.selectedDataset.ID
          THEN LET m2 == [m1 EXCEPT !.lastSelectedDatasetID = dl.selectedDataset.ID,
                                    !.lastSelectedTableID = <<>>,
                                    !.tableDetail.schema = Nil,
                                    !.tableDetail.preview = Nil,
                                    !.tableDetail.currentTableName = <<>>,
                                    !.loadingTables = TRUE]
               IN R(m2, loadTables(m2))
          ELSE R(m1, <<>>)

updateDatasetList(mm, k) ==
    datasetListUpdated(mm, DatasetList_Update(mm.datasetList, KeyMsg(k)))

\* the FocusTableDetail case of Model.updateFocusedComponent, with r what
\* TableDetailModel.Update returned
tableDetailUpdated(mm, r) ==
    IF r.panic THEN Panic(mm) ELSE R([mm EXCEPT !.tableDetail = r.td], r.cmds)

\* the FocusProjectSelector case of Model.updateFocusedComponent, with r
\* what ProjectSelectorModel.Update returned
projectSelectorUpdated(mm, r) == R([mm EXCEPT !.projectSelector = r.ps], r.cmds)

\* Model.updateFocusedComponent
updateFocusedComponent(mm, k) ==
    IF mm.focus = FocusDatasetList THEN updateDatasetList(mm, k)
    ELSE IF mm.focus = FocusTableDetail
    THEN tableDetailUpdated(mm, TableDetail_Update(mm.tableDetail, KeyMsg(k)))
    ELSE IF mm.focus = FocusProjectSelector
    THEN projectSelectorUpdated(mm, ProjectSelector_Update(mm.projectSelector, KeyMsg(k)))
    ELSE R(mm, <<>>)

\* Model.handleCopy
handleCopy(mm, projectID) ==
    LET td == mm.tableDetail
        dl == mm.datasetList
    IN
    IF mm.focus = FocusDatasetList /\ dl.selectedTable # Nil
    THEN R(mm, copyCmd(projectID \o <<".">> \o dl.selectedTable.DatasetID
                       \o <<".">> \o dl.selectedTable.ID))
    ELSE IF mm.focus = FocusTableDetail /\ td.activeTab = PreviewTab /\ td.preview # Nil
    THEN LET rows == getFilteredPreviewRows(td)
         IN IF td.visualMode
            THEN LET start == min(td.visualStartRow, td.visualEndRow)
                     end   == max(td.visualStartRow, td.visualEndRow)
                     last  == min(end, Len(rows) - 1)
                 IN IF start <= last /\ start < 0 THEN Panic(mm)
                    ELSE IF start <= last
                    THEN R(mm, copyCmd(<<"rows", SubSeq(rows, start + 1, last + 1)>>))
                    ELSE R(mm, <<>>)
            ELSE IF Len(rows) > td.previewRowCursor
                 THEN IF td.previewRowCursor < 0 THEN Panic(mm)
                      ELSE LET row == rows[td.previewRowCursor + 1]
                           IN IF Len(row) > td.previewColCursor
                              THEN IF td.previewColCursor < 0 THEN Panic(mm)
                                   ELSE R(mm, copyCmd(<<"cell",
                                                        row[td.previewColCursor + 1]>>))
                              ELSE R(mm, <<>>)
                 ELSE R(mm, <<>>)
    ELSE IF mm.focus = FocusTableDetail /\ td.activeTab = SchemaTab /\ td.schema # Nil
    THEN LET fields == getFilteredSchemaFields(td)
         IN IF Len(fields) > td.schemaRowCursor
            THEN IF td.schemaRowCursor < 0 THEN Panic(mm)
                 ELSE R(mm, copyCmd(<<"field", fields[td.schemaRowCursor + 1].Name>>))
            ELSE R(mm, <<>>)
    ELSE R(mm, <<>>)

\* the FocusTableDetail part of the Escape case of Model.Update, with r what
\* tableDetail.handleKeypress returned: the pane's answer is kept when one
\* of the five compared fields differs, else the focus goes to the Browser
escapeDelegated(mm, r) ==
    LET updatedTableDetail == r.td
        old == mm.tableDetail
    IN IF \/ updatedTableDetail.visualMode # old.visualMode
          \/ updatedTableDetail.schemaFilter # old.schemaFilter
          \/ updatedTableDetail.previewFilter # old.previewFilter
          \/ updatedTableDetail.showSchemaFilter # old.showSchemaFilter
          \/ updatedTableDetail.showPreviewFilter # old.showPreviewFilter
       THEN R([mm EXCEPT !.tableDetail = updatedTableDetail], r.cmds)
       ELSE R([mm EXCEPT !.focus = FocusDatasetList], <<>>)

\* the Escape case of Model.Update
updateEscape(mm) ==
    IF mm.showProjectList
    THEN R([mm EXCEPT !.showProjectList = FALSE, !.focus = FocusDatasetList], <<>>)
    ELSE IF mm.showHelp THEN R([mm EXCEPT !.showHelp = FALSE], <<>>)
    ELSE IF mm.focus = FocusTableDetail
    THEN escapeDelegated(mm, TableDetail_handleKeypress(mm.tableDetail, "esc"))
    ELSE R(mm, <<>>)

\* the tea.KeyMsg case of Model.Update
updateKey(mm, k, projectID) ==
    IF mm.focus = FocusSearch THEN handleSearchInput(mm, k)
    ELSE IF Matches(k, KeyMap.Quit) THEN Quit(mm)
    ELSE IF Matches(k, KeyMap.Help) THEN R([mm EXCEPT !.showHelp = ~@], <<>>)
    ELSE IF Matches(k, KeyMap.ProjectList)
    THEN IF mm.focus # FocusProjectSelector
         THEN R([mm EXCEPT !.focus = FocusProjectSelector, !.showProjectList = TRUE],
                loadProjects(mm))
         ELSE R(mm, <<>>)
    ELSE IF Matches(k, KeyMap.Escape) THEN updateEscape(mm)
    ELSE IF (Matches(k, KeyMap.Tab) \/ Matches(k, KeyMap.ShiftTab))
            /\ mm.focus # FocusTableDetail
    THEN R(mm, <<>>)
    ELSE IF Matches(k, KeyMap.Search)
            /\ ~(mm.focus = FocusTableDetail /\ mm.tableDetail.activeTab = SchemaTab)
    THEN R([mm EXCEPT !.focus = FocusSearch, !.search = NewSearchModel], <<>>)
    ELSE IF Matches(k, KeyMap.Copy) \/ Matches(k, KeyMap.CopyAlt)
    THEN handleCopy(mm, projectID)
    \* Tab and "/" in the detail pane, and every other key
    ELSE updateFocusedComponent(mm, k)

\* a gate that lets every tables result through
tablesMatch_open(mm, msg) == TRUE

\* the selection gate of the TablesLoadedMsg case
tablesMatch(mm, msg) ==
    /\ mm.datasetList.selectedDataset # Nil
    /\ mm.datasetList.selectedDataset.ID = msg.DatasetID

\* a gate that lets every schema and preview result through
tableMatch_open(mm, msg) == TRUE

\* the selection gate of the TableSchemaLoadedMsg and TablePreviewLoadedMsg cases
tableMatch(mm, msg) ==
    /\ mm.datasetList.selectedTable # Nil
    /\ mm.datasetList.selectedTable.DatasetID = msg.DatasetID
    /\ mm.datasetList.selectedTable.ID = msg.TableID

\* the DatasetsLoadedMsg case of Model.Update
datasetsLoaded(mm, msg) ==
    R([mm EXCEPT !.datasetList.datasets = msg.data,
                 !.loadingDatasets = FALSE,
                 !.statusMessage = <<"Loaded datasets", Len(msg.data)>>], <<>>)

\* the TablesLoadedMsg case of Model.Update
tablesLoaded(mm, msg) ==
    IF tablesMatch(mm, msg)
    THEN R([mm EXCEPT !.datasetList.tables = msg.data,
                      !.loadingTables = FALSE,
                      !.statusMessage =
                          <<"Loaded tables", Len(msg.data), msg.DatasetID>>], <<>>)
    ELSE R([mm EXCEPT !.statusMessage =
                          <<"Ignored stale table response", msg.DatasetID>>], <<>>)

\* the TableSchemaLoadedMsg case of Model.Update
schemaLoaded(mm, msg) ==
    IF tableMatch(mm, msg)
    THEN R([mm EXCEPT !.tableDetail.schema = msg.data,
                      !.tableDetail.currentTableName = msg.TableID,
                      !.tableDetail.schemaRowCursor = 0,
                      !.loadingSchema = FALSE,
                      !.statusMessage =
                          <<"Loaded schema", msg.DatasetID, msg.TableID>>], <<>>)
    ELSE R([mm EXCEPT !.statusMessage =
                          <<"Ignored stale schema response",
                            msg.DatasetID, msg.TableID>>], <<>>)

\* a preview case whose stale branch also ends the loading indication
previewLoaded_settle(mm, msg) ==
    IF tableMatch(mm, msg)
    THEN R([mm EXCEPT !.tableDetail.preview = msg.data,
                      !.tableDetail.currentTableName =
                          IF @ = <<>> THEN msg.TableID ELSE @,
                      !.tableDetail.previewRowCursor = 0,
                      !.tableDetail.previewColCursor = 0,
                      !.loadingPreview = FALSE,
                      !.statusMessage =
                          <<"Loaded preview", msg.DatasetID, msg.TableID>>], <<>>)
    ELSE R([mm EXCEPT !.loadingPreview = FALSE,
                      !.statusMessage =
                          <<"Ignored stale preview response",
                            msg.DatasetID, msg.TableID>>], <<>>)

\* the TablePreviewLoadedMsg case of Model.Update
previewLoaded(mm, msg) ==
    IF tableMatch(mm, msg)
    THEN R([mm EXCEPT !.tableDetail.preview = msg.data,
                      !.tableDetail.currentTableName =
                          IF @ = <<>> THEN msg.TableID ELSE @,
                      !.tableDetail.previewRowCursor = 0,
                      !.tableDetail.previewColCursor = 0,
                      !.loadingPreview = FALSE,
                      !.statusMessage =
                          <<"Loaded preview", msg.DatasetID, msg.TableID>>], <<>>)
    ELSE R([mm EXCEPT !.statusMessage =
                          <<"Ignored stale preview response",
                            msg.DatasetID, msg.TableID>>], <<>>)

\* an error case that asks for the datasets again
errorReceived_retry(mm, msg) ==
    R([mm EXCEPT !.err = msg.data, !.statusMessage = <<"Error", msg.data>>],
      loadDatasets(mm))

\* an error case that also drops the selected table
errorReceived_deselect(mm, msg) ==
    R([mm EXCEPT !.err = msg.data, !.statusMessage = <<"Error", msg.data>>,
                 !.datasetList.selectedTable = Nil], <<>>)

\* the ErrorMsg case of Model.Update
errorReceived(mm, msg) ==
    R([mm EXCEPT !.err = msg.data, !.statusMessage = <<"Error", msg.data>>], <<>>)

\* Model.Update; projectID is what bqClient.GetProjectID() returns
Update(mm, msg, projectID) ==
    IF msg.type = "WindowSizeMsg"
    THEN R([mm EXCEPT !.width = msg.data[1], !.height = msg.data[2], !.ready = TRUE], <<>>)
    ELSE IF msg.type = "KeyMsg" THEN updateKey(mm, msg.key, projectID)
    ELSE IF msg.type = "DatasetsLoadedMsg" THEN datasetsLoaded(mm, msg)
    ELSE IF msg.type = "TablesLoadedMsg" THEN tablesLoaded(mm, msg)
    ELSE IF msg.type = "TableSchemaLoadedMsg" THEN schemaLoaded(mm, msg)
    ELSE IF msg.type = "TablePreviewLoadedMsg" THEN previewLoaded(mm, msg)
    ELSE IF msg.type = "ErrorMsg" THEN errorReceived(mm, msg)
    ELSE IF msg.type = "CopySuccessMsg"
    THEN R([mm EXCEPT !.statusMessage = <<"Copied", msg.data>>], <<>>)
    ELSE IF msg.type = "ProjectSelectedMsg"
    THEN R(mm, switchProject(mm, msg.data))
    ELSE IF msg.type = "ProjectSwitchedMsg"
    THEN LET m2 == [mm EXCEPT !.statusMessage = <<"Switched to project", msg.data>>,
                              !.showProjectList = FALSE,
                              !.focus = FocusDatasetList,
                              !.datasetList = NewDatasetListModel,
                              !.tableDetail = NewTableDetailModel,
                              !.loadingDatasets = TRUE,
                              !.lastSelectedDatasetID = <<>>,
                              !.lastSelectedTableID = <<>>]
         IN R(m2, loadDatasets(m2))
    ELSE R(mm, <<>>)

----------------------------------------------------------------------------
(* messages.go: what a command answers.  The cache field the commands      *)
(* consult is nil in this Model, so every command asks the collaborator.   *)

\* Client.ListProjects
ListProjects(b) == b.projects

ErrorMsg(text) == Msg("ErrorMsg", "", <<>>, <<>>, text)

\* the message a command returns when the collaborator answers it
Answer(c, b) ==
    IF c.cmd = "loadDatasets"
    THEN Msg("DatasetsLoadedMsg", "", <<>>, <<>>, ListDatasets(b))
    ELSE IF c.cmd = "loadTables"
    THEN Msg("TablesLoadedMsg", "", c.DatasetID, <<>>, ListTables(b, c.DatasetID))
    ELSE IF c.cmd = "loadTableSchema"
    THEN Msg("TableSchemaLoadedMsg", "", c.DatasetID, c.TableID,
             GetTableSchema(c.DatasetID, c.TableID))
    ELSE IF c.cmd = "loadTablePreview"
    THEN Msg("TablePreviewLoadedMsg", "", c.DatasetID, c.TableID,
             PreviewTable(c.DatasetID, c.TableID))
    ELSE IF c.cmd = "loadProjects"
    THEN Msg("ProjectsLoadedMsg", "", <<>>, <<>>, ListProjects(b))
    ELSE IF c.cmd = "copy" THEN Msg("CopySuccessMsg", "", <<>>, <<>>, c.data)
    ELSE IF c.cmd = "switchProject" THEN Msg("ProjectSwitchedMsg", "", <<>>, <<>>, c.data)
    ELSE Msg(c.cmd, "", <<>>, <<>>, c.data)

\* the message a command returns when the collaborator fails
Failure(c) ==
    IF c.cmd = "loadDatasets" THEN ErrorMsg(<<"failed to load datasets">>)
    ELSE IF c.cmd = "loadTables"
    THEN ErrorMsg(<<"failed to load tables for dataset", c.DatasetID>>)
    ELSE IF c.cmd = "loadTableSchema"
    THEN ErrorMsg(<<"failed to load schema for table", c.TableID>>)
    ELSE IF c.cmd = "loadTablePreview"
    THEN ErrorMsg(<<"failed to load preview for table", c.TableID>>)
    ELSE IF c.cmd = "loadProjects" THEN ErrorMsg(<<"failed to load projects">>)
    ELSE IF c.cmd = "switchProject"
    THEN ErrorMsg(<<"failed to switch to project", c.data>>)
    ELSE ErrorMsg(<<"clipboard">>)

\* the commands whose collaborator can fail
CanFail(c) ==
    c.cmd \in {"loadDatasets", "loadTables", "loadTableSchema", "loadTablePreview",
               "loadProjects", "switchProject", "copy"}

----------------------------------------------------------------------------
(* The state machine.                                                      *)

\* NewModel, then Model.Init: the datasets of the project are asked for.
\* Init has a value receiver, so its loadingDatasets = true is lost.
InitWith(catalog) ==
    /\ m = NewModel
    /\ inflight = BatchBag(loadDatasets(NewModel))
    /\ quit = "running"
    /\ client = [projectID |-> catalog.project]
    /\ backend = catalog

\* the guard that keeps the model finite
Bounded(old, new, cmds) ==
    /\ Len(new.search.input) <= MaxFilterLen
    /\ Len(new.tableDetail.schemaFilter) <= MaxFilterLen
    /\ Len(new.tableDetail.previewFilter) <= MaxFilterLen
    /\ \/ new.tableDetail.scrollOffset <= old.tableDetail.scrollOffset
       \/ new.tableDetail.scrollOffset <= MaxScroll
    /\ \/ new.tableDetail.horizontalOffset <= old.tableDetail.horizontalOffset
       \/ new.tableDetail.horizontalOffset <= MaxScroll
       \/ new.tableDetail.activeTab = PreviewTab /\ new.tableDetail.preview # Nil
    /\ BagCardinality(inflight (+) BatchBag(cmds)) <= MaxInFlight

\* the program handles one message
Handle(msg, done) ==
    /\ quit = "running"
    /\ \E r \in {Update(m, msg, client.projectID)} :
          /\ Bounded(m, r.m, r.cmds)
          /\ m' = r.m
          /\ inflight' = (inflight (-) done) (+) BatchBag(r.cmds)
          /\ quit' = r.quit

\* the user presses key k
Press(k) ==
    /\ Handle(KeyMsg(k), EmptyBag)
    /\ UNCHANGED <<client, backend>>

\* command c returns the collaborator's answer
Deliver(c) ==
    /\ c \in BagToSet(inflight)
    /\ Handle(Answer(c, backend), SetToBag({c}))
    /\ client' = IF c.cmd = "switchProject" THEN [projectID |-> c.data] ELSE client
    /\ UNCHANGED backend

\* command c returns an error
Fail(c) ==
    /\ c \in BagToSet(inflight)
    /\ CanFail(c)
    /\ Handle(Failure(c), SetToBag({c}))
    /\ UNCHANGED <<client, backend>>

DeliverResult == \E c \in BagToSet(inflight) : Deliver(c)

FailResult == \E c \in BagToSet(inflight) : Fail(c)

\* Browsing: the user walks the Browser while results arrive, and leaves
\* the detail pane with Escape once Enter on a table has moved the focus there.
BrowseKeys == {"up", "down", "enter", "left"}

PressBrowseKey == \E k \in BrowseKeys : m.focus = FocusDatasetList /\ Press(k)

LeaveDetail == m.focus = FocusTableDetail /\ Press("esc")

Init == InitWith(SmallCatalog)

Next == PressBrowseKey \/ LeaveDetail \/ DeliverResult

Spec == Init /\ [][Next]_vars

\* the fetches of the session over the small catalog
CatalogFetches ==
    LET ds == {SmallCatalog.datasets[i] : i \in 1..Len(SmallCatalog.datasets)}
    IN {Cmd("loadDatasets", <<>>, <<>>, <<>>)}
       \cup {Cmd("loadTables", d, <<>>, <<>>) : d \in ds}
       \cup UNION {{Cmd(kind, d, SmallCatalog.tables[d][j], <<>>) :
                       kind \in {"loadTableSchema", "loadTablePreview"},
                       j \in 1..Len(SmallCatalog.tables[d])} : d \in ds}

\* The same session when every fetch completes: the runtime runs each
\* command in a goroutine of its own and hands its message to Update, so a
\* command that is in flight is eventually delivered.  The user's keys are
\* under no obligation.
SpecFair == Spec /\ \A c \in CatalogFetches : WF_vars(Deliver(c))

\* Results of every kind: the user also opens the Picker, and the
\* collaborators may fail.
AsyncKeys == {"down", "enter", "ctrl+p", "esc"}

PressAsyncKey == \E k \in AsyncKeys : m.focus # FocusTableDetail /\ Press(k)

NextAsync == PressAsyncKey \/ LeaveDetail \/ DeliverResult \/ FailResult

SpecAsync == Init /\ [][NextAsync]_vars

\* Filtering: the user searches the Browser, pressing a key when at most
\* one result is outstanding.
FilterKeys == {"down", "enter", "left", "/", "a", "esc"}

PressFilterKey ==
    \E k \in FilterKeys :
        m.focus # FocusTableDetail /\ BagCardinality(inflight) <= 1 /\ Press(k)

InitFilter == InitWith(MixedCatalog)

NextFilter == PressFilterKey \/ LeaveDetail \/ DeliverResult

SpecFilter == InitFilter /\ [][NextFilter]_vars

\* Scrolling: the user walks a Browser list longer than a page, pressing a
\* key only when no result is outstanding.
ScrollKeys == {"up", "down", "g", "G", "pgup", "pgdown", "left", "right", "enter"}

PressScrollKey ==
    \E k \in ScrollKeys :
        m.focus = FocusDatasetList /\ inflight = EmptyBag /\ Press(k)

InitScroll == InitWith(LongCatalog)

NextScroll == PressScrollKey \/ LeaveDetail \/ DeliverResult

SpecScroll == InitScroll /\ [][NextScroll]_vars

\* Escaping: the user opens a table, works in the detail pane, opens the
\* overlays and presses Escape, pressing a key only when no result is
\* outstanding.
EscapeKeys == {"enter", "tab", "/", "a", "V", "?", "ctrl+p", "esc"}

PressEscapeKey == \E k \in EscapeKeys : inflight = EmptyBag /\ Press(k)

NextEscape == PressEscapeKey \/ DeliverResult

SpecEscape == Init /\ [][NextEscape]_vars

\* Quitting: the user reaches each focus (Browser, detail pane, Picker,
\* search input) and presses a quit key, pressing a key only when no result
\* is outstanding.
QuitKeys == {"enter", "/", "ctrl+p", "esc", "q", "ctrl+c"}

PressQuitKey == \E k \in QuitKeys : inflight = EmptyBag /\ Press(k)

NextQuit == PressQuitKey \/ DeliverResult

SpecQuit == Init /\ [][NextQuit]_vars

\* Opening a table: the user walks the Browser, opens a table while results
\* are outstanding and moves the row cursor of the detail pane.
OpenKeys == {"up", "down", "enter"}

PressOpenKey ==
    \E k \in OpenKeys : (m.focus = FocusTableDetail => k = "down") /\ Press(k)

NextOpen == PressOpenKey \/ DeliverResult

SpecOpen == Init /\ [][NextOpen]_vars

\* Selecting rows: the user opens a table, goes to the Preview tab, turns
\* the visual selection on and off and moves the row cursor, pressing a key
\* only when no result is outstanding.
VisualKeys == {"enter", "tab", "V", "up", "down", "g", "G", "pgup", "pgdown"}

PressVisualKey == \E k \in VisualKeys : inflight = EmptyBag /\ Press(k)

NextVisual == PressVisualKey \/ DeliverResult

SpecVisual == Init /\ [][NextVisual]_vars

\* the terminal widths a resize reports
Widths == {40, 120}

\* the terminal height a resize reports
WindowHeight == 40

\* the terminal is resized to width w: the runtime sends a tea.WindowSizeMsg
Resize(w) ==
    /\ Handle(Msg("WindowSizeMsg", "", <<>>, <<>>, <<w, WindowHeight>>), EmptyBag)
    /\ UNCHANGED <<client, backend>>

ResizeWindow == \E w \in Widths : Resize(w)

\* Columns: the user opens a table, goes to the Preview tab and moves the
\* column cursor while the terminal is resized, pressing a key only when no
\* result is outstanding.
ColumnKeys == {"enter", "tab", "left", "right", "0", "$", "g", "G"}

PressColumnKey == \E k \in ColumnKeys : inflight = EmptyBag /\ Press(k)

NextColumns == PressColumnKey \/ ResizeWindow \/ DeliverResult

SpecColumns == Init /\ [][NextColumns]_vars

\* Tabs: the user opens a table, cycles the tabs of the detail pane forwards
\* and backwards, moves the cursors, selects rows and goes back to the
\* Browser, pressing a key only when no result is outstanding.
TabKeys == {"enter", "tab", "shift+tab", "down", "right", "V", "esc"}

PressTabKey == \E k \in TabKeys : inflight = EmptyBag /\ Press(k)

NextTabs == PressTabKey \/ DeliverResult

SpecTabs == Init /\ [][NextTabs]_vars

\* Editing: the user opens a table and reaches the Query tab, whose editor
\* has the input focus, and presses there the keys the session binds to
\* something of its own; a key is pressed only when no result is outstanding.
EditKeys == {"enter", "tab", "esc"}

\* keys pressed while the query editor has the input focus
TypedKeys == {"a", "q", "?", "/", "y", "ctrl+p", "down"}

\* the detail pane has the focus and its Query tab's editor the input focus
InQueryEditor ==
    /\ m.focus = FocusTableDetail
    /\ m.tableDetail.activeTab = QueryTab
    /\ m.tableDetail.queryInput.focused
    /\ ~m.tableDetail.showSchemaFilter
    /\ ~m.tableDetail.showPreviewFilter

PressEditKey ==
    \E k \in EditKeys \cup TypedKeys :
        /\ inflight = EmptyBag
        /\ k \in TypedKeys => InQueryEditor
        /\ Press(k)

NextEdit == PressEditKey \/ DeliverResult

SpecEdit == Init /\ [][NextEdit]_vars

\* Rows: the user opens a table, moves the Schema tab's row cursor by rows
\* and by pages and filters the columns; a key is pressed only when no
\* result is outstanding, a letter only into the open filter line.
RowKeys == {"enter", "down", "pgup", "pgdown", "/", "esc"}

\* letters typed into the filter line: "a" matches a column, "V" none
FilterLetters == {"a", "V"}

PressRowKey ==
    \E k \in RowKeys \cup FilterLetters :
        /\ inflight = EmptyBag
        /\ k \in FilterLetters => m.tableDetail.showSchemaFilter
        /\ Press(k)

NextRows == PressRowKey \/ DeliverResult

SpecRows == Init /\ [][NextRows]_vars

----------------------------------------------------------------------------
(* The asynchronous request gate.                                          *)

\* the key of the selected table, <<>> when no table is selected
SelectedTableKey ==
    IF m.datasetList.selectedTable = Nil THEN <<>>
    ELSE <<m.datasetList.selectedTable.DatasetID, m.datasetList.selectedTable.ID>>

\* the key of the selected dataset, <<>> when no dataset is selected
SelectedDatasetKey ==
    IF m.datasetList.selectedDataset = Nil THEN <<>>
    ELSE <<m.datasetList.selectedDataset.ID>>

\* command c is in flight and this step delivers its answer
Delivers(c) == c \in BagToSet(inflight) /\ Deliver(c)

\* C1: a schema result that arrives for a table other than the selected one
\* leaves the detail pane's schema, table name and schema cursor as they
\* were, and a schema result for the selected table becomes the detail
\* pane's schema, in every interleaving of key presses and deliveries.
C1_SchemaGate ==
    [][\A c \in BagToSet(inflight) :
          (c.cmd = "loadTableSchema" /\ Delivers(c)) =>
              IF SelectedTableKey = <<c.DatasetID, c.TableID>>
              THEN m'.tableDetail.schema = GetTableSchema(c.DatasetID, c.TableID)
              ELSE /\ m'.tableDetail.schema = m.tableDetail.schema
                   /\ m'.tableDetail.currentTableName = m.tableDetail.currentTableName
                   /\ m'.tableDetail.schemaRowCursor = m.tableDetail.schemaRowCursor]_vars

\* the schema result of table a.a was discarded while table a.b is selected
\* and the fetch for a.b is still out
C1_Witness ==
    /\ m.statusMessage = <<"Ignored stale schema response", <<"a">>, <<"a">>>>
    /\ SelectedTableKey = << <<"a">>, <<"b">> >>
    /\ Cmd("loadTableSchema", <<"a">>, <<"b">>, <<>>) \in BagToSet(inflight)

\* C2: a tables result that arrives for a dataset other than the selected
\* one is discarded, and the result for the selected dataset becomes the
\* Browser's table list, whichever arrives first.
C2_TablesGate ==
    [][\A c \in BagToSet(inflight) :
          (c.cmd = "loadTables" /\ Delivers(c)) =>
              IF SelectedDatasetKey = <<c.DatasetID>>
              THEN m'.datasetList.tables = ListTables(backend, c.DatasetID)
              ELSE m'.datasetList.tables = m.datasetList.tables]_vars

\* the tables of dataset a are shown although the result for dataset b,
\* asked for earlier, arrived after them and was discarded
C2_Witness ==
    /\ m.statusMessage = <<"Ignored stale table response", <<"b">>>>
    /\ SelectedDatasetKey = << <<"a">> >>
    /\ m.datasetList.tables = ListTables(backend, <<"a">>)
    /\ m.datasetList.tables # <<>>

\* command c's result is for a dataset or table that is not the selected one
Stale(c) ==
    \/ c.cmd = "loadTables" /\ SelectedDatasetKey # <<c.DatasetID>>
    \/ /\ c.cmd \in {"loadTableSchema", "loadTablePreview"}
       /\ SelectedTableKey # <<c.DatasetID, c.TableID>>

SelectionKey == <<client.projectID, SelectedDatasetKey, SelectedTableKey>>

----------------------------------------------------------------------------
(* The Browser list.                                                       *)

\* C6: submitting the search input, whatever the text and the items, leaves
\* the Browser with cursor = 0 and viewOffset = 0.
C6_FilterResetsCursor ==
    [][(m.focus = FocusSearch /\ Press("enter")) =>
          (m'.datasetList.cursor = 0 /\ m'.datasetList.viewOffset = 0)]_vars

\* the user presses a key that the Browser handles
BrowserKeyPressed == m.focus = FocusDatasetList /\ \E k \in ScrollKeys : Press(k)

\* C7: after every Browser key (Up, Down, Top, Bottom, PageUp, PageDown,
\* Left, Right, Enter) that changes the list state, the cursor lies in the
\* page that starts at viewOffset.
C7_ScrollToCursor ==
    [][(BrowserKeyPressed /\ m'.datasetList # m.datasetList) =>
          /\ m'.datasetList.viewOffset <= m'.datasetList.cursor
          /\ m'.datasetList.cursor < m'.datasetList.viewOffset + maxVisible]_vars

\* C8: whenever the filtered list the Browser shows is not empty, the cursor
\* is an index into it.
C8_CursorInRange ==
    Len(getFilteredItems(m.datasetList)) > 0 =>
        /\ 0 <= m.datasetList.cursor
        /\ m.datasetList.cursor < Len(getFilteredItems(m.datasetList))

----------------------------------------------------------------------------
(* Escape.                                                                 *)

\* the detail pane has the focus and no overlay is open
InDetailPane == m.focus = FocusTableDetail /\ ~m.showProjectList /\ ~m.showHelp

DetailHandlesEscape ==
    \/ m.tableDetail.showColumnDialog
    \/ m.tableDetail.visualMode
    \/ m.tableDetail.activeTab = SchemaTab /\ m.tableDetail.schemaFilter # <<>>
    \/ m.tableDetail.activeTab = PreviewTab /\ m.tableDetail.previewFilter # <<>>

\* C10: outside search input, Escape closes the Picker if it is open; else
\* closes the help if it is open; else, with the detail pane focused, the
\* detail pane's own Escape handling is kept and the focus stays when the
\* pane had a dialog, a visual selection or an active-tab filter to undo,
\* and the focus goes to the Browser when it had none.
C10_EscapeOrder ==
    [][(m.focus # FocusSearch /\ Press("esc")) =>
          IF m.showProjectList THEN ~m'.showProjectList
          ELSE IF m.showHelp THEN ~m'.showHelp
          ELSE IF m.focus = FocusTableDetail
          THEN IF DetailHandlesEscape
               THEN /\ m'.tableDetail = handleEscapeKey(m.tableDetail)
                    /\ m'.focus = FocusTableDetail
               ELSE m'.focus = FocusDatasetList
          ELSE TRUE]_vars

----------------------------------------------------------------------------
(* Quitting.                                                               *)

\* the user presses q or ctrl+c
QuitKeyPressed == \E k \in KeyMap.Quit : Press(k)

\* C11: in every focus (Browser, detail pane, Picker, search input) a
\* press of q or ctrl+c terminates the session.
C11_QuitFromEveryFocus == [][QuitKeyPressed => quit' = "quit"]_vars

----------------------------------------------------------------------------
(* Dispatching fetches.                                                    *)

\* this step hands command c to the runtime
Issued(c) == c \in BagToSet(inflight') /\ CopiesIn(c, inflight') > CopiesIn(c, inflight)

\* the selection key "dataset.table" a schema or preview fetch carries
FetchKey(c) == c.DatasetID \o <<".">> \o c.TableID

\* C12: a Browser key, Enter on a table or a cursor movement onto a table,
\* issues a Schema or Preview fetch only for a key that differs from the key
\* fetches were last issued for.
C12_NoRedundantDispatch ==
    [][PressBrowseKey =>
          \A c \in BagToSet(inflight') :
              (c.cmd \in {"loadTableSchema", "loadTablePreview"} /\ Issued(c))
                  => FetchKey(c) # m.lastSelectedTableID]_vars

\* the session state without the status line
Shown(mm) == [mm EXCEPT !.statusMessage = <<>>]

\* the session after the result of command c is handled
Delivered(mm, c) == Update(mm, Answer(c, backend), client.projectID).m

\* the session after key k is handled
Pressed(mm, k) == Update(mm, KeyMsg(k), client.projectID).m

\* delivering the result of c again after key k changes nothing that
\* delivering it once before k had not already produced
AppliedOnce(once, k, c) == Shown(Delivered(Pressed(once, k), c)) = Shown(Pressed(once, k))

\* C13: whenever the same Schema or Preview fetch is outstanding twice,
\* delivering its result, then a key of the user, then its result again
\* leaves the session as delivering it once and the key leave it.
C13_DuplicateAppliedOnce ==
    \A c \in BagToSet(inflight) :
        (c.cmd \in {"loadTableSchema", "loadTablePreview"} /\ CopiesIn(c, inflight) >= 2)
            => \A k \in OpenKeys : AppliedOnce(Delivered(m, c), k, c)

----------------------------------------------------------------------------
(* Selecting and hovering.                                                 *)

\* this step issues the Schema fetch and the Preview fetch of table t
BothIssuedFor(t) ==
    /\ Issued(Cmd("loadTableSchema", t.DatasetID, t.ID, <<>>))
    /\ Issued(Cmd("loadTablePreview", t.DatasetID, t.ID, <<>>))

\* this step issues no Schema or Preview fetch
NoneIssued ==
    \A c \in BagToSet(inflight') :
        c.cmd \in {"loadTableSchema", "loadTablePreview"} => ~Issued(c)

\* the table under the cursor of the Browser's table view
TableUnderCursor == getFilteredTables(m.datasetList)[m.datasetList.cursor + 1]

\* the user presses Enter on a table of the Browser's table view
EnterOnTable ==
    /\ m.focus = FocusDatasetList
    /\ m.datasetList.showingTables
    /\ m.datasetList.cursor < Len(getFilteredTables(m.datasetList))
    /\ Press("enter")

\* a Browser key other than Enter puts the selection on another table
HoverOntoTable ==
    /\ PressBrowseKey
    /\ m'.focus = FocusDatasetList
    /\ m'.datasetList.selectedTable # Nil
    /\ m'.datasetList.selectedTable # m.datasetList.selectedTable

\* the selection key "dataset.table" of the Browser after the step
HoverKey == m'.datasetList.selectedDataset.ID \o <<".">> \o m'.datasetList.selectedTable.ID

\* Enter on a table moves the focus to the detail pane and issues both fetches
SelectOpens ==
    EnterOnTable => (m'.focus = FocusTableDetail /\ BothIssuedFor(TableUnderCursor))

\* C14: Enter on a table sets the focus to the detail pane and issues the
\* Schema and Preview fetches of that table in the same step; moving the
\* cursor onto a table issues the same two fetches and leaves the focus on
\* the Browser.
C14_SelectAndHoverFetch ==
    [][/\ SelectOpens
       /\ HoverOntoTable => BothIssuedFor(m'.datasetList.selectedTable)]_vars

\* C14 as amended: Enter on a table sets the focus to the detail pane and
\* issues both fetches; moving the cursor onto a table issues both fetches
\* when its key differs from the key the last hover recorded, and issues
\* none when the key is the recorded one; the focus stays on the Browser.
C14_SelectAndHoverFetchNewKey ==
    [][/\ SelectOpens
       /\ HoverOntoTable =>
              IF HoverKey # m.lastSelectedTableID
              THEN BothIssuedFor(m'.datasetList.selectedTable)
              ELSE NoneIssued]_vars

\* a table was hovered and then opened with Enter: its fetches are out and
\* the detail pane has the focus
C14_Witness ==
    /\ m.focus = FocusTableDetail
    /\ m.lastSelectedTableID # <<>>
    /\ m.datasetList.selectedTable # Nil
    /\ CopiesIn(Cmd("loadTableSchema", m.datasetList.selectedTable.DatasetID,
                    m.datasetList.selectedTable.ID, <<>>), inflight) > 0
    /\ CopiesIn(Cmd("loadTablePreview", m.datasetList.selectedTable.DatasetID,
                    m.datasetList.selectedTable.ID, <<>>), inflight) > 0

\* the detail pane shows no schema, no preview and no table name
DetailCleared(mm) ==
    /\ mm.tableDetail.schema = Nil
    /\ mm.tableDetail.preview = Nil
    /\ mm.tableDetail.currentTableName = <<>>

\* the dataset under the cursor of the Browser's dataset view
DatasetUnderCursor == getFilteredDatasets(m.datasetList)[m.datasetList.cursor + 1]

\* the user presses Enter on a dataset of the Browser's dataset view
EnterOnDataset ==
    /\ m.focus = FocusDatasetList
    /\ ~m.datasetList.showingTables
    /\ m.datasetList.cursor < Len(getFilteredDatasets(m.datasetList))
    /\ Press("enter")

\* this step issues the Tables fetch of dataset id
TablesIssuedFor(id) == Issued(Cmd("loadTables", id, <<>>, <<>>))

\* C15: Enter on a dataset issues the Tables fetch of that dataset and, in
\* the same step, clears the schema, the preview and the table name of the
\* detail pane.
C15_SelectDatasetFetchesAndClears ==
    [][EnterOnDataset =>
          (TablesIssuedFor(DatasetUnderCursor.ID) /\ DetailCleared(m'))]_vars

\* a Browser key leaves a dataset selected that is not the one recorded
\* by the last Tables dispatch
DatasetChanges ==
    /\ PressBrowseKey
    /\ m'.datasetList.selectedDataset # Nil
    /\ m'.datasetList.selectedDataset.ID # m.lastSelectedDatasetID

\* C15 as amended: a Browser key (cursor movement or Enter) that selects a
\* dataset other than the one recorded by the last Tables dispatch issues
\* the Tables fetch of that dataset and clears schema, preview and table
\* name in the same step; a Browser key that leaves the recorded dataset
\* selected, Enter on it included, issues no Tables fetch.
C15_DatasetChangeFetchesAndClears ==
    [][PressBrowseKey =>
          IF DatasetChanges
          THEN /\ TablesIssuedFor(m'.datasetList.selectedDataset.ID)
               /\ DetailCleared(m')
               /\ m'.focus = FocusDatasetList
          ELSE \A c \in BagToSet(inflight') : c.cmd = "loadTables" => ~Issued(c)]_vars

\* a schema or preview of a table of dataset a was stored, then dataset b was
\* selected: its tables are asked for and the detail pane is empty
C15_Witness ==
    /\ m.statusMessage \in {<<"Loaded schema", <<"a">>, <<"a">> >>,
                            <<"Loaded preview", <<"a">>, <<"a">> >>}
    /\ m.datasetList.selectedDataset = Dataset(<<"b">>)
    /\ CopiesIn(Cmd("loadTables", <<"b">>, <<>>, <<>>), inflight) > 0
    /\ DetailCleared(m)

----------------------------------------------------------------------------
(* Failures.                                                               *)

\* command c returns an error in this step
Fails(c) == c \in BagToSet(inflight) /\ Fail(c)

\* the loading flag of the operation command c belongs to
LoadingFlag(mm, c) ==
    IF c.cmd = "loadDatasets" THEN mm.loadingDatasets
    ELSE IF c.cmd = "loadTables" THEN mm.loadingTables
    ELSE IF c.cmd = "loadTableSchema" THEN mm.loadingSchema
    ELSE IF c.cmd = "loadTablePreview" THEN mm.loadingPreview
    ELSE FALSE

\* C16: the step that handles the failure of a Datasets, Tables, Schema or
\* Preview fetch leaves the loading flag of that operation cleared.
C16_FailureClearsLoading ==
    [][\A c \in BagToSet(inflight) : Fails(c) => ~LoadingFlag(m', c)]_vars

\* the session state without the error and the status line
Kept(mm) == [mm EXCEPT !.err = <<>>, !.statusMessage = <<>>]

\* C17: the step that handles a failure sets the status message to the
\* error, changes nothing else but the error field (focus, selection, lists
\* and detail pane stay as they were) and issues no command.
C17_FailureOnlyStatus ==
    [][\A c \in BagToSet(inflight) :
          Fails(c) => /\ m'.statusMessage = <<"Error", Failure(c).data>>
                      /\ Kept(m') = Kept(m)
                      /\ inflight' = inflight (-) SetToBag({c})]_vars

\* a failure was handled while a table was selected and its list shown
C17_Witness ==
    /\ m.err # <<>>
    /\ m.statusMessage = <<"Error", m.err>>
    /\ m.datasetList.selectedTable # Nil
    /\ m.datasetList.tables # <<>>

\* the fetches the Browser can issue for the project's contents
Fetches ==
    LET ds == {backend.datasets[i] : i \in 1..Len(backend.datasets)}
    IN {Cmd("loadTables", d, <<>>, <<>>) : d \in ds}
       \cup UNION {{Cmd(kind, d, backend.tables[d][j], <<>>) :
                       kind \in {"loadTableSchema", "loadTablePreview"},
                       j \in 1..Len(backend.tables[d])} : d \in ds}

\* fetch c has failed: the status line shows its error and no fetch of the
\* same key is outstanding
HasFailed(c) ==
    /\ m.statusMessage = <<"Error", Failure(c).data>>
    /\ CopiesIn(c, inflight) = 0

\* Down or Enter in the Browser navigates to the dataset or table fetch c
\* is keyed to: in the dataset view the step leaves that dataset selected,
\* in the table view it leaves that table selected
NavigatesTo(c) ==
    /\ m.focus = FocusDatasetList
    /\ \E k \in {"down", "enter"} : Press(k)
    /\ IF c.cmd = "loadTables"
       THEN /\ ~m.datasetList.showingTables
            /\ m'.datasetList.selectedDataset = Dataset(c.DatasetID)
       ELSE /\ m.datasetList.showingTables
            /\ m'.datasetList.selectedTable = Table(c.DatasetID, c.TableID)

\* C18: after a Tables, Schema or Preview fetch has failed, navigating again
\* to the dataset or table it was keyed to issues that fetch anew.
C18_RetryByNavigating ==
    [][\A c \in Fetches : (HasFailed(c) /\ NavigatesTo(c)) => Issued(c)]_vars

----------------------------------------------------------------------------
(* Delivery order.                                                         *)

\* the orders in which the commands of a bag can return
Orders(bag) ==
    LET S == BagToSet(bag)
        n == BagCardinality(bag)
    IN {seq \in [1..n -> S] :
           \A c \in S : Cardinality({i \in 1..n : seq[i] = c}) = CopiesIn(c, bag)}

RECURSIVE DeliverAll(_, _)
\* the session after the results of the commands of seq are handled in turn
DeliverAll(mm, seq) ==
    IF Len(seq) = 0 THEN mm
    ELSE DeliverAll(Delivered(mm, seq[1]), [i \in 1..(Len(seq) - 1) |-> seq[i + 1]])

\* the Browser's table list and the detail pane's schema and preview
Outcome(mm) == <<mm.datasetList.tables, mm.tableDetail.schema, mm.tableDetail.preview>>

\* C19: once the user has stopped, the table list, the schema and the
\* preview that are shown after all outstanding results have been handled
\* are the same for every order in which those results arrive.
C19_OrderIndependent ==
    Cardinality({Outcome(DeliverAll(m, seq)) : seq \in Orders(inflight)}) = 1

\* a Schema result for the selected table and a Schema result for another
\* table are outstanding together
C19_Witness ==
    \E c1, c2 \in BagToSet(inflight) :
        /\ c1.cmd = "loadTableSchema" /\ c2.cmd = "loadTableSchema"
        /\ tableMatch(m, Answer(c1, backend))
        /\ ~tableMatch(m, Answer(c2, backend))

----------------------------------------------------------------------------
(* The visual selection.                                                   *)

\* TableDetailModel.isRowInVisualSelection
isRowInVisualSelection(td, rowIdx) ==
    IF ~td.visualMode THEN FALSE
    ELSE /\ rowIdx >= min(td.visualStartRow, td.visualEndRow)
         /\ rowIdx <= max(td.visualStartRow, td.visualEndRow)

\* the rows of the filtered preview that are shown as selected
SelectedRows(td) ==
    {r \in 0..(Len(getFilteredPreviewRows(td)) - 1) : isRowInVisualSelection(td, r)}

\* C20: while a visual selection is active on the Preview tab, the selected
\* rows are those from the row it was activated on to the row the cursor is
\* on, whichever of the two is the lower.
C20_VisualRangeFollowsCursor ==
    (/\ m.tableDetail.visualMode
     /\ m.tableDetail.activeTab = PreviewTab
     /\ m.tableDetail.preview # Nil) =>
        SelectedRows(m.tableDetail) =
            min(m.tableDetail.visualStartRow, m.tableDetail.previewRowCursor)
            .. max(m.tableDetail.visualStartRow, m.tableDetail.previewRowCursor)

----------------------------------------------------------------------------
(* The horizontal viewport of the Preview tab.                             *)

\* Model.View: the width of the right pane
rightPaneWidth(mm) == mm.width - (mm.width \div 3) - 4

\* Model.View: the width the detail pane is rendered with.  View has a value
\* receiver, so this width is given to the copy that is drawn and never to
\* the record Update works on, whose width stays 0.
viewWidth(mm) == rightPaneWidth(mm) - 4

\* TableDetailModel.renderPreviewTab: the characters of a row that are drawn
availableWidth(mm) == max(20, viewWidth(mm) - 2)

\* the column under the cursor spans [colStart, colEnd) and that span lies
\* inside the window of the given width that starts at offset
cursorSpanInside(td, offset, width) ==
    LET colWidths == calculateColumnWidths(td)
        start     == colStart(colWidths, td.previewColCursor)
    IN /\ start >= offset
       /\ start + colWidths[td.previewColCursor + 1] <= offset + width

\* the width of the column under the cursor
cursorColWidth(td) == calculateColumnWidths(td)[td.previewColCursor + 1]

\* the keys that move the column cursor of the Preview tab
MoveKeys == {"left", "right", "0", "$", "g", "G"}

\* the detail pane has the focus and draws the preview of a table
OnPreview ==
    /\ m.ready
    /\ m.focus = FocusTableDetail
    /\ m.tableDetail.activeTab = PreviewTab
    /\ m.tableDetail.preview # Nil

\* the user moves the column cursor of the Preview tab
ColumnMove == OnPreview /\ \E k \in MoveKeys : Press(k)

\* C21: a column-cursor move on the Preview tab that lands on a column
\* lying fully inside the drawn window [offset, offset + availableWidth)
\* leaves the horizontal offset as it was.
C21_ScrollMinimality ==
    [][(/\ ColumnMove
        /\ cursorSpanInside(m'.tableDetail, m.tableDetail.horizontalOffset,
                            availableWidth(m))) =>
          m'.tableDetail.horizontalOffset = m.tableDetail.horizontalOffset]_vars

\* C22: after a column-cursor move (Left, Right, 0, $, Top, Bottom) or a
\* resize of the terminal, a cursor column no wider than the drawn window
\* lies inside [offset, offset + availableWidth), with availableWidth the
\* width the pane is drawn with.
C22_CursorColumnVisible ==
    [][(/\ ColumnMove \/ (OnPreview /\ ResizeWindow)
        /\ cursorColWidth(m'.tableDetail) <= availableWidth(m')) =>
          cursorSpanInside(m'.tableDetail, m'.tableDetail.horizontalOffset,
                           availableWidth(m'))]_vars

----------------------------------------------------------------------------
(* The tabs of the detail pane.                                            *)

\* the tabs of the tab bar: Schema, Preview, Query, Results
TabCount == 4

\* the user presses key k while the detail pane has the focus and no filter
\* line of the pane is being edited
DetailKey(k) ==
    /\ m.focus = FocusTableDetail
    /\ ~m.tableDetail.showSchemaFilter
    /\ ~m.tableDetail.showPreviewFilter
    /\ Press(k)

\* C23: from every tab, with or without the input focus on the query
\* editor, Tab moves to the next tab of the four in order, wrapping from the
\* last to the first, and Shift+Tab moves to the previous one.
C23_TabCycleModular ==
    [][/\ DetailKey("tab") =>
              m'.tableDetail.activeTab = (m.tableDetail.activeTab + 1) % TabCount
       /\ DetailKey("shift+tab") =>
              m'.tableDetail.activeTab =
                  (m.tableDetail.activeTab + TabCount - 1) % TabCount]_vars

\* C24: Enter on a table of the Browser leaves the focus on the detail pane
\* and the Schema tab active, whichever tab was active before.
C24_EnterShowsSchema ==
    [][EnterOnTable =>
          (m'.focus = FocusTableDetail /\ m'.tableDetail.activeTab = SchemaTab)]_vars

----------------------------------------------------------------------------
(* The query editor.                                                       *)

\* the user presses, with the input focus on the query editor, a key that
\* is neither a tab key nor Escape
EditorKeyPressed ==
    /\ InQueryEditor
    /\ \E k \in (EditKeys \cup TypedKeys)
                  \ (KeyMap.Tab \cup KeyMap.ShiftTab \cup KeyMap.Escape) : Press(k)

\* C25: while the query editor has the input focus in the focused detail
\* pane, a key other than Tab, Shift+Tab and Escape goes to the editor and
\* does nothing else: the session keeps running, the help, the Picker and
\* the search input stay closed, nothing is copied and no cursor moves.
C25_EditorTakesKeys ==
    [][EditorKeyPressed => (quit' = "running" /\ inflight' = inflight /\ m' = m)]_vars

----------------------------------------------------------------------------
(* What a tab change resets.                                               *)

\* the user changes the tab of the focused detail pane
TabChange == DetailKey("tab") \/ DetailKey("shift+tab")

\* C26: every tab change, by Tab or Shift+Tab and with or without the input
\* focus on the query editor, leaves the vertical scroll offset and the row
\* and column cursors of the Schema, Preview and Results tabs at 0.
C26_TabChangeResetsCursors ==
    [][TabChange =>
          /\ m'.tableDetail.scrollOffset = 0
          /\ m'.tableDetail.schemaRowCursor = 0
          /\ m'.tableDetail.previewRowCursor = 0
          /\ m'.tableDetail.previewColCursor = 0
          /\ m'.tableDetail.resultsRowCursor = 0
          /\ m'.tableDetail.resultsColCursor = 0]_vars

\* the Preview tab was left with the column cursor on the second column:
\* the horizontal offset still shows the move, the cursors are back at 0
C26_Witness ==
    /\ m.focus = FocusTableDetail
    /\ m.tableDetail.activeTab # PreviewTab
    /\ m.tableDetail.preview # Nil
    /\ m.tableDetail.horizontalOffset > MaxScroll
    /\ m.tableDetail.previewColCursor = 0
    /\ m.tableDetail.previewRowCursor = 0
    /\ m.tableDetail.scrollOffset = 0

\* C27: a tab change made while a visual selection is active deactivates
\* the selection and resets both row markers, the anchor row and the
\* current row, to 0.
C27_TabChangeClearsSelection ==
    [][(TabChange /\ m.tableDetail.visualMode) =>
          /\ ~m'.tableDetail.visualMode
          /\ m'.tableDetail.visualStartRow = 0
          /\ m'.tableDetail.visualEndRow = 0]_vars

----------------------------------------------------------------------------
(* The filter line of the Schema and Preview tabs.                         *)

\* the filter line of a tab of the detail pane is being edited
FilterEditing(td) == td.showSchemaFilter \/ td.showPreviewFilter

\* the user presses Enter or Escape while a filter line of the focused
\* detail pane is being edited
SubmitOrCancel ==
    /\ InDetailPane
    /\ FilterEditing(m.tableDetail)
    /\ Press("enter") \/ Press("esc")

\* C29: with the detail pane focused and the filter line of the Schema or
\* Preview tab being edited, handling Enter or Escape ends the editing of
\* the filter line.
C29_FilterEditingEnds ==
    [][SubmitOrCancel => ~FilterEditing(m'.tableDetail)]_vars

\* the user presses "/" with the detail pane focused on the Schema or the
\* Preview tab and no filter line open
FilterTrigger ==
    /\ InDetailPane
    /\ ~FilterEditing(m.tableDetail)
    /\ m.tableDetail.activeTab \in {SchemaTab, PreviewTab}
    /\ Press("/")

\* C30: "/" pressed with the detail pane focused on the Schema or Preview
\* tab opens the filter line of that tab and leaves the focus on the detail
\* pane; the Browser's search input is not opened.
C30_SlashFiltersActiveTab ==
    [][FilterTrigger =>
          /\ m'.focus = FocusTableDetail
          /\ IF m.tableDetail.activeTab = SchemaTab
             THEN m'.tableDetail.showSchemaFilter
             ELSE m'.tableDetail.showPreviewFilter]_vars

----------------------------------------------------------------------------
(* The Picker.                                                             *)

\* what Model.Update returns for the picker-open key in the current state
PickerKeyHandled == Update(m, KeyMsg("ctrl+p"), client.projectID)

\* C31: in every state outside the Picker the picker-open key sets the
\* focus to the Picker and issues exactly one projects fetch; in the Picker
\* it changes no state and issues no fetch.
C31_PickerOpenIdempotent ==
    IF m.focus # FocusProjectSelector
    THEN /\ PickerKeyHandled.m.focus = FocusProjectSelector
         /\ PickerKeyHandled.cmds = loadProjects(m)
    ELSE /\ PickerKeyHandled.m = m
         /\ PickerKeyHandled.cmds = <<>>

----------------------------------------------------------------------------
(* The shared client.                                                      *)

\* command c finishes in this step, with its answer or with an error
Completes(c) == Delivers(c) \/ Fails(c)

C33_OverlayIffPickerFocus ==
    m.showProjectList <=> (m.focus = FocusProjectSelector)

----------------------------------------------------------------------------
(* The Browser's selection.                                                *)

\* C34: a selected table belongs to the selected dataset and is an element of
\* the current table list.
C34_TableOfSelectedDataset ==
    m.datasetList.selectedTable # Nil =>
        /\ m.datasetList.selectedDataset # Nil
        /\ m.datasetList.selectedTable.DatasetID = m.datasetList.selectedDataset.ID
        /\ \E i \in 1..Len(m.datasetList.tables) :
               m.datasetList.tables[i] = m.datasetList.selectedTable

----------------------------------------------------------------------------
(* The detail pane's row cursors.                                          *)

\* cursor c is a row of a list of n rows, or 0 when the list is empty
RowInRange(c, n) == c >= 0 /\ (n > 0 => c < n)

\* C35: the schema and the preview row cursor are never negative and, when
\* the filtered list of their tab is not empty, smaller than its length.
C35_RowCursorsInRange ==
    /\ RowInRange(m.tableDetail.schemaRowCursor,
                  IF m.tableDetail.schema = Nil THEN 0
                  ELSE Len(getFilteredSchemaFields(m.tableDetail)))
    /\ RowInRange(m.tableDetail.previewRowCursor,
                  IF m.tableDetail.preview = Nil THEN 0
                  ELSE Len(getFilteredPreviewRows(m.tableDetail)))

\* C36: while a visual selection is active on the Preview tab, the row the
\* selection ends on is the row the cursor is on.
C36_SelectionEndsAtCursor ==
    (m.tableDetail.visualMode /\ m.tableDetail.activeTab = PreviewTab) =>
        m.tableDetail.visualEndRow = m.tableDetail.previewRowCursor

----------------------------------------------------------------------------
(* Loading flags.                                                          *)

\* the fetches that raise a loading flag
FetchKinds == {"loadDatasets", "loadTables", "loadTableSchema", "loadTablePreview"}

\* a fetch of the given kind is in flight
InFlightOfKind(kind) == \E c \in BagToSet(inflight) : c.cmd = kind

\* C37: when no fetch of a kind (Datasets, Tables, Schema, Preview) is in
\* flight, the loading flag of that kind is false.
C37_NoStuckLoadingFlag ==
    \A kind \in FetchKinds :
        ~InFlightOfKind(kind) => ~LoadingFlag(m, Cmd(kind, <<>>, <<>>, <<>>))

----------------------------------------------------------------------------
(* Eventual consistency of the detail pane.                                *)

\* the tables of the small catalog
CatalogTables ==
    UNION {{Table(SmallCatalog.datasets[i], SmallCatalog.tables[SmallCatalog.datasets[i]][j]) :
               j \in 1..Len(SmallCatalog.tables[SmallCatalog.datasets[i]])} :
           i \in 1..Len(SmallCatalog.datasets)}

\* the detail pane holds the schema and the preview of table t
ShowsTable(t) ==
    /\ m.tableDetail.schema = GetTableSchema(t.DatasetID, t.ID)
    /\ m.tableDetail.preview = PreviewTable(t.DatasetID, t.ID)

\* C38: when every fetch completes, a table that stays selected from some
\* point on is eventually the table whose schema and preview the detail pane
\* holds.
C38_SelectedTableEventuallyShown ==
    \A t \in CatalogTables :
        <>[](m.datasetList.selectedTable = t) => <>ShowsTable(t)

----------------------------------------------------------------------------
(* The Picker's list.                                                      *)

\* C39: the step that delivers the result of the projects fetch while the
\* Picker is open leaves the Picker's list equal to the fetched list.
C39_PickerReceivesProjects ==
    [][\A c \in BagToSet(inflight) :
          (/\ c.cmd = "loadProjects"
           /\ m.focus = FocusProjectSelector
           /\ Delivers(c))
          => m'.projectSelector.projects = ListProjects(backend)]_vars

----------------------------------------------------------------------------
(* Leaving the table view.                                                 *)

\* what Model.Update returns for the Left key in the current state
LeftKeyHandled == Update(m, KeyMsg("left"), client.projectID)

\* C40: in every state in which the Browser has the focus and shows the
\* tables of a dataset, the Left key leaves the Browser showing the datasets.
C40_LeftLeavesTableView ==
    (m.focus = FocusDatasetList /\ m.datasetList.showingTables) =>
        ~LeftKeyHandled.m.datasetList.showingTables

====
